---- MODULE Spec2Model ----
(***************************************************************************)
(* Model of folder_watcher_dv7_encoder.py: the watch loop of main, the     *)
(* command builder construct_command and the process runner run_encoding.  *)
(*                                                                         *)
(* Text is modelled as a sequence of pieces (TLA+ strings); the text it    *)
(* stands for is the concatenation of the pieces.  Strings the program     *)
(* inspects character by character are sequences of one-character pieces.  *)
(***************************************************************************)
EXTENDS Integers, Sequences, FiniteSets, TLC

(* ---------------------------------------------------------------- bounds *)
MaxTime == 3

(* ------------------------------------------------------- generic helpers *)
Last(s) == s[Len(s)]

RECURSIVE Contains(_, _)
\* Python's `sub in s` for strings: sub occurs in s as a contiguous run.
Contains(sub, s) ==
    IF Len(sub) > Len(s) THEN FALSE
    ELSE IF SubSeq(s, 1, Len(sub)) = sub THEN TRUE
    ELSE Contains(sub, Tail(s))

RECURSIVE IndexOf(_, _)
\* position of the first occurrence of c in s, 0 when absent
IndexOf(c, s) ==
    IF s = << >> THEN 0
    ELSE IF Head(s) = c THEN 1
    ELSE LET r == IndexOf(c, Tail(s)) IN IF r = 0 THEN 0 ELSE r + 1

(* ------------------------------------------------------------ file names *)
Mov == "DolbyMaster.mov"
Xml == "DolbyMetadata.xml"
InputFiles == {Mov, Xml}

\* processed_path / f'DolbyMaster_{timestamp}.mov'
ArchivedMov(ts) == <<"DolbyMaster", "_", ts, ".mov">>
\* processed_path / f'DolbyMetadata_{timestamp}.xml'
ArchivedXml(ts) == <<"DolbyMetadata", "_", ts, ".xml">>

(* --------------------------------------------------------- configuration *)
ESP == "encoder_script_path"

StrV(chars) == [type |-> "str", text |-> chars]
NumV(t)     == [type |-> "num", text |-> <<t>>]
BoolV(t)    == [type |-> "bool", text |-> <<t>>]
NullV       == [type |-> "null", text |-> <<"null">>]

P_temp  == <<"/", "t", "e", "m", "p">>
P_in    == <<"/", "i", "n">>
P_ab    == <<"a", "/", "b">>
P_win   == <<"c", "\\", "x">>
S_fast  == <<"f", "a", "s", "t">>
P_enc   == <<"/", "e", ".", "p", "y">>
S_temp  == <<"t", "e", "m", "p">>

\* the paths that exist on the filesystem (Path(value).exists())
ExistingPaths == {P_in, P_enc}

CfgPlain == << <<ESP, StrV(P_enc)>>, <<"preset", StrV(S_fast)>>, <<"crf", NumV("18")>> >>
CfgPaths == << <<"temp-dir", StrV(P_temp)>>, <<ESP, StrV(P_enc)>>,
               <<"lut", StrV(P_in)>>, <<"log", StrV(P_ab)>>, <<"w", StrV(P_win)>> >>
CfgNull  == << <<ESP, StrV(P_enc)>>, <<"hdr", BoolV("true")>>, <<"skip", NullV>>,
               <<"tag", StrV(S_temp)>> >>
CfgNoKey == << <<"preset", StrV(S_fast)>> >>

\* the mappings json.load may return
Configs == {CfgPlain, CfgPaths, CfgNull, CfgNoKey}

\* key in config
HasKey(cfg, k) == \E i \in 1..Len(cfg) : cfg[i][1] = k

\* config[k]
Lookup(cfg, k) == cfg[CHOOSE i \in 1..Len(cfg) : cfg[i][1] = k][2]

RECURSIVE Pop(_, _)
\* the mapping after config.pop(k): the entry is removed, the order kept
Pop(cfg, k) ==
    IF cfg = << >> THEN << >>
    ELSE IF Head(cfg)[1] = k THEN Tail(cfg)
    ELSE <<Head(cfg)>> \o Pop(Tail(cfg), k)

(* ----------------------------------------------------------------- paths *)
\* a folder path is its sequence of segments; its text joins them with "/"
RECURSIVE PathText(_)
PathText(segs) ==
    IF segs = << >> THEN << >>
    ELSE IF Len(segs) = 1 THEN <<segs[1]>>
    ELSE <<Head(segs), "/">> \o PathText(Tail(segs))

\* Path(folder) / name
PathJoin(segs, name) == PathText(segs) \o <<"/">> \o name

\* the first segment of the path taken for its name
PathName_First(segs) == Head(segs)

\* Path(folder).name
PathName(segs) == Last(segs)

WatchFolders == { <<"in">>, <<"mnt", "jobs", "show">> }
OutputFolder == <<"out">>

(* ------------------------------------------------------ construct_command *)
Quote(text) == <<"\"">> \o text \o <<"\"">>

\* isinstance(value, str) and ('\\' in value or '/' in value)
IsPathLike(v) ==
    v.type = "str" /\ (Contains(<<"\\">>, v.text) \/ Contains(<<"/">>, v.text))

\* line 59 written with `and`
QuoteWanted_Both(v) ==
    v.text \in ExistingPaths /\ Contains(<<"t", "e", "m", "p">>, v.text)

\* Path(value).exists() or 'temp' in value
QuoteWanted(v) ==
    v.text \in ExistingPaths \/ Contains(<<"t", "e", "m", "p">>, v.text)

\* str(value) for the JSON scalars
Str(v) ==
    CASE v.type = "str"  -> v.text
      [] v.type = "num"  -> v.text
      [] v.type = "bool" -> IF v.text = <<"true">> THEN <<"True">> ELSE <<"False">>
      [] v.type = "null" -> <<"None">>

\* the loop of lines 55-64 without the `if value is not None` of line 62
EntryTokens_NoNullCheck(e) ==
    LET key == e[1]
        v   == e[2]
        txt == IF IsPathLike(v) /\ QuoteWanted(v) THEN Quote(v.text) ELSE Str(v)
    IN  << <<"--", key>>, txt >>

\* the tokens one config entry contributes (lines 55-64)
EntryTokens(e) ==
    LET key == e[1]
        v   == e[2]
        txt == IF IsPathLike(v) /\ QuoteWanted(v) THEN Quote(v.text) ELSE Str(v)
    IN  IF v.type # "null" THEN << <<"--", key>>, txt >> ELSE << >>

RECURSIVE ConfigTokens(_)
ConfigTokens(cfg) ==
    IF cfg = << >> THEN << >>
    ELSE EntryTokens(Head(cfg)) \o ConfigTokens(Tail(cfg))

\* the check of lines 44-45
KeyMissing(cfg) == ~HasKey(cfg, ESP)

\* the command of lines 47-77, for a config that holds the reserved key
CommandFor(cfg, wf, of) ==
    LET script == Lookup(cfg, ESP).text
        rest   == Pop(cfg, ESP)
        base   == PathName(wf)
    IN  << Quote(<<"python">>), <<"-u">>, Quote(script) >>
        \o ConfigTokens(rest)
        \o << <<"--input">>, Quote(PathJoin(wf, <<Mov>>)) >>
        \o << <<"--input-metadata">>, Quote(PathJoin(wf, <<Xml>>)) >>
        \o << <<"--output-bl">>, Quote(PathJoin(of, <<base, "_bl.h265">>)) >>
        \o << <<"--output-el">>, Quote(PathJoin(of, <<base, "_el.h265">>)) >>

(* ------------------------------------------------- run_encoding: the text *)
NL == "\n"

\* bytes.decode(encoding, errors='replace'), byte by byte
DecodeByte(b) == IF b = "xFF" THEN "U+FFFD" ELSE b

Decode(bytes) == [i \in 1..Len(bytes) |-> DecodeByte(bytes[i])]

Whitespace == {" ", "\r", "\t", "\n"}

RECURSIVE RStrip(_)
\* str.rstrip()
RStrip(s) ==
    IF s = << >> THEN << >>
    ELSE IF Last(s) \in Whitespace THEN RStrip(SubSeq(s, 1, Len(s) - 1))
    ELSE s

LowerChar(c) ==
    CASE c = "E" -> "e" [] c = "R" -> "r" [] c = "O" -> "o" [] c = "W" -> "w"
      [] c = "A" -> "a" [] c = "N" -> "n" [] c = "I" -> "i" [] c = "G" -> "g"
      [] OTHER -> c

\* str.lower()
Lower(s) == [i \in 1..Len(s) |-> LowerChar(s[i])]

\* lines 101-104 with the two tests in the other order
Classify_WarningFirst(line_str) ==
    LET lower_line == Lower(line_str)
    IN  IF Contains(<<"w", "a", "r", "n", "i", "n", "g">>, lower_line) THEN "YELLOW"
        ELSE IF Contains(<<"e", "r", "r", "o", "r">>, lower_line) THEN "RED"
        ELSE "PLAIN"

\* the colour chosen at lines 100-106
Classify(line_str) ==
    LET lower_line == Lower(line_str)
    IN  IF Contains(<<"e", "r", "r", "o", "r">>, lower_line) THEN "RED"
        ELSE IF Contains(<<"w", "a", "r", "n", "i", "n", "g">>, lower_line) THEN "YELLOW"
        ELSE "PLAIN"

\* line_buffer.split(b'\n')[0]
FirstLine(buf) == SubSeq(buf, 1, IndexOf(NL, buf) - 1)

\* line 95 written as line_buffer[len(line):]
AfterFirstLine_KeepNL(buf) == SubSeq(buf, IndexOf(NL, buf), Len(buf))

\* line_buffer[len(line)+1:]
AfterFirstLine(buf) == SubSeq(buf, IndexOf(NL, buf) + 1, Len(buf))

\* what the child may write to the merged stdout/stderr pipe
Out_ok    == <<"o", "k", NL>>
Out_err   == <<"E", "r", "r", "o", "r", NL>>
Out_both  == <<"w", "a", "r", "n", "i", "n", "g", " ", "e", "R", "R", "O", "R", NL>>
Out_warn  == <<"W", "a", "r", "n", "i", "n", "g", "\r", NL, "e", "n", "d">>
Out_bad   == <<"xFF", NL>>
Out_empty == << >>
ChildOutputs == {Out_ok, Out_err, Out_both, Out_warn, Out_bad, Out_empty}

\* exit statuses of the child as Popen reports them (negative: killed by a signal)
ExitCodes == {0, 2, -9}

\* run_encoding testing `returncode > 0` instead of `returncode != 0`
RunEncodingReturn_Positive(rc) == IF rc > 0 THEN FALSE ELSE TRUE

\* lines 109-114: the value run_encoding returns for process.returncode
RunEncodingReturn(rc) == IF rc # 0 THEN FALSE ELSE TRUE

(* ------------------------------------------------------------- exceptions *)
\* isinstance(exc, Exception): KeyboardInterrupt and SystemExit are not
IsException(exc) == exc \notin {"KeyboardInterrupt", "SystemExit"}

\* run_encoding with a bare `except:` clause
RunEncodingCatches_Bare(exc) == TRUE

\* the except clauses of run_encoding, lines 115-120
RunEncodingCatches(exc) == exc = "FileNotFoundError" \/ IsException(exc)

\* the except clause around the moves, line 169
MoveCatches(exc) == IsException(exc)

\* the except clause of main, line 176
MainCatches(exc) == exc = "KeyboardInterrupt"

\* sys.exit(1) in error()
ErrorExitCode == 1

\* sys.exit(0) in main's KeyboardInterrupt handler
InterruptExitCode == 0

(* ------------------------------------------------------------------ state *)
VARIABLES
    pc,            \* where the process is: setup, check, construct, launch,
                   \* reading, wait, stamp, move1, move2, sleep, exited
    watch_folder,  \* args.watch_folder, as path segments
    interval,      \* args.polling_interval
    loaded,        \* << >> before load_config, then <<mapping as loaded>>
    config,        \* the config object of main (mutated by construct_command)
    watch,         \* the input files present in the watch folder
    processed,     \* the file names present in the processed folder
    now,           \* the wall clock, in seconds
    timestamp,     \* main's timestamp: << >> or <<seconds>>
    command,       \* main's command: the token list last built
    childOut,      \* bytes the running child has still to write to the pipe
    childExit,     \* the exit status the running child ends with
    written,       \* all the bytes the child launched last writes to the pipe
    alive,         \* number of child processes started and not yet waited for
    line_buffer,   \* run_encoding's line_buffer
    printed,       \* the lines run_encoding printed: <<colour, text>>
    returncode,    \* process.returncode: << >> or <<code>>
    result,        \* the value run_encoding returned: << >> or <<boolean>>
    exitCode,      \* the exit status of the watcher: << >> or <<code>>
    exitCause,     \* which statement ended the watcher
    sigint,        \* a SIGINT was delivered and KeyboardInterrupt is due
    polls,         \* number of checks of line 156 performed
    sleeps,        \* number of time.sleep calls performed
    builds,        \* number of construct_command calls
    launches       \* number of subprocess.Popen calls that started a child

job      == <<watch_folder, interval>>
cfgs     == <<loaded, config>>
fs       == <<watch, processed>>
child    == <<childOut, childExit, written, alive, line_buffer, printed,
              returncode>>
exit     == <<exitCode, exitCause>>
counters == <<polls, sleeps, builds, launches>>
vars     == <<pc, job, cfgs, fs, now, timestamp, command, child, result,
              exit, sigint, counters>>

Intervals == {1, 2}

\* the statements inside main's try block, lines 151-174
LoopPcs == {"check", "construct", "launch", "reading", "wait", "stamp",
            "move1", "move2", "sleep"}
\* those inside run_encoding's try block, lines 84-114
RunPcs  == {"launch", "reading", "wait"}
\* those inside the try block around the moves, lines 165-168
MovePcs == {"move1", "move2"}

Init ==
    /\ pc = "setup"
    /\ watch_folder \in WatchFolders
    /\ interval \in Intervals
    /\ loaded = << >>
    /\ config = << >>
    /\ watch \in SUBSET InputFiles
    /\ processed = {}
    /\ now = 0
    /\ timestamp = << >>
    /\ command = << >>
    /\ childOut = << >>
    /\ childExit = 0
    /\ written = << >>
    /\ alive = 0
    /\ line_buffer = << >>
    /\ printed = << >>
    /\ returncode = << >>
    /\ result = << >>
    /\ exitCode = << >>
    /\ exitCause = "none"
    /\ sigint = FALSE
    /\ polls = 0
    /\ sleeps = 0
    /\ builds = 0
    /\ launches = 0

\* sys.exit(code): the process is gone
Exit(code, cause) ==
    /\ pc' = "exited"
    /\ exitCode' = <<code>>
    /\ exitCause' = cause

\* error() calling sys.exit(0)
Error_ExitZero(cause) == Exit(0, cause)

\* error(msg), lines 19-22
Error(cause) == Exit(ErrorExitCode, cause)

(* ------------------------------------------------------- main: the set-up *)
\* lines 135-136: the watch folder is not a directory
SetupNoWatchFolder ==
    /\ pc = "setup"
    /\ Error("watch_folder")
    /\ UNCHANGED <<job, cfgs, fs, now, timestamp, command, child, result,
                   sigint, counters>>

\* line 146, load_config lines 37-40: no such file, or not JSON
SetupConfigUnreadable ==
    /\ pc = "setup"
    /\ Error("config_file")
    /\ UNCHANGED <<job, cfgs, fs, now, timestamp, command, child, result,
                   sigint, counters>>

\* main validating the reserved key right after load_config
SetupOk_Validating ==
    /\ pc = "setup"
    /\ \E c \in Configs :
          /\ loaded' = <<c>>
          /\ config' = c
          /\ IF ~HasKey(c, ESP)
             THEN Exit(1, "config_key")
             ELSE pc' = "check" /\ UNCHANGED exit
    /\ UNCHANGED <<job, fs, now, timestamp, command, child, result,
                   sigint, counters>>

\* lines 135-149: the folders are there, the config is loaded as it is
SetupOk ==
    /\ pc = "setup"
    /\ \E c \in Configs :
          /\ loaded' = <<c>>
          /\ config' = c
    /\ pc' = "check"
    /\ UNCHANGED <<job, fs, now, timestamp, command, child, result, exit,
                   sigint, counters>>

(* ------------------------------------------------------- main: the loop *)
\* the check of line 156 written with `or`
PollReady_Either(w) == Mov \in w \/ Xml \in w

\* line 156: input_mov.exists() and input_xml.exists()
PollReady(w) == Mov \in w /\ Xml \in w

\* the sleep of line 174 indented into the `if` of line 156
PollCheck_NoSleep ==
    /\ pc = "check"
    /\ ~sigint
    /\ polls' = polls + 1
    /\ pc' = IF PollReady(watch) THEN "construct" ELSE "check"
    /\ UNCHANGED <<job, cfgs, fs, now, timestamp, command, child, result,
                   exit, sigint, sleeps, builds, launches>>

\* lines 153-156 (and 174 when the pair is incomplete: next stop is the sleep)
PollCheck ==
    /\ pc = "check"
    /\ ~sigint
    /\ polls' = polls + 1
    /\ pc' = IF PollReady(watch) THEN "construct" ELSE "sleep"
    /\ UNCHANGED <<job, cfgs, fs, now, timestamp, command, child, result,
                   exit, sigint, sleeps, builds, launches>>

\* line 159, construct_command lines 42-77
ConstructCommand ==
    /\ pc = "construct"
    /\ ~sigint
    /\ builds' = builds + 1
    /\ IF KeyMissing(config)
       THEN /\ Error("config_key")
            /\ UNCHANGED <<config, command>>
       ELSE /\ command' = CommandFor(config, watch_folder, OutputFolder)
            /\ config' = Pop(config, ESP)
            /\ pc' = "launch"
            /\ UNCHANGED exit
    /\ UNCHANGED <<job, loaded, fs, now, timestamp, child, result, sigint,
                   polls, sleeps, launches>>

\* run_encoding returning True right after Popen, without reading or waiting
Launch_NoWait ==
    /\ pc = "launch"
    /\ ~sigint
    /\ \E out \in ChildOutputs, rc \in ExitCodes :
          /\ childOut' = out
          /\ written' = out
          /\ childExit' = rc
    /\ alive' = alive + 1
    /\ line_buffer' = << >>
    /\ returncode' = << >>
    /\ launches' = launches + 1
    /\ result' = <<TRUE>>
    /\ pc' = "stamp"
    /\ UNCHANGED <<job, cfgs, fs, now, timestamp, command, printed,
                   exit, sigint, polls, sleeps, builds>>

\* line 87: Popen started the shell; the child will write out and end with rc
Launch ==
    /\ pc = "launch"
    /\ ~sigint
    /\ \E out \in ChildOutputs, rc \in ExitCodes :
          /\ childOut' = out
          /\ written' = out
          /\ childExit' = rc
    /\ alive' = alive + 1
    /\ line_buffer' = << >>
    /\ returncode' = << >>
    /\ launches' = launches + 1
    /\ pc' = "reading"
    /\ UNCHANGED <<job, cfgs, fs, now, timestamp, command, printed, result,
                   exit, sigint, polls, sleeps, builds>>

\* the handlers of lines 115-120 warning and returning False
LaunchFails_Recoverable ==
    /\ pc = "launch"
    /\ ~sigint
    /\ result' = <<FALSE>>
    /\ exitCause' = "launch"
    /\ pc' = "sleep"
    /\ UNCHANGED <<job, cfgs, fs, now, timestamp, command, child, exitCode,
                   sigint, counters>>

\* line 87 raises (no shell, no memory, ...): lines 115-120 report it
LaunchFails ==
    /\ pc = "launch"
    /\ ~sigint
    /\ \E exc \in {"FileNotFoundError", "OSError"} :
          /\ RunEncodingCatches(exc)
          /\ Error("launch")
    /\ UNCHANGED <<job, cfgs, fs, now, timestamp, command, child, result,
                   sigint, counters>>

\* lines 91-106: read(1) returned one byte
ReadByte ==
    /\ pc = "reading"
    /\ ~sigint
    /\ childOut # << >>
    /\ childOut' = Tail(childOut)
    /\ LET buf == Append(line_buffer, Head(childOut))
       IN  IF Contains(<<NL>>, buf)
           THEN LET line     == FirstLine(buf)
                    line_str == RStrip(Decode(line))
                IN  /\ line_buffer' = AfterFirstLine(buf)
                    /\ printed' = Append(printed, <<Classify(line_str), line_str>>)
           ELSE /\ line_buffer' = buf
                /\ printed' = printed
    /\ UNCHANGED <<pc, job, cfgs, fs, now, timestamp, command, childExit,
                   written, alive,
                   returncode, result, exit, sigint, counters>>

\* line 91: read(1) returned b'' (the child closed the pipe): the loop ends
ReadEOF ==
    /\ pc = "reading"
    /\ ~sigint
    /\ childOut = << >>
    /\ pc' = "wait"
    /\ UNCHANGED <<job, cfgs, fs, now, timestamp, command, child, result,
                   exit, sigint, counters>>

\* main archiving whatever run_encoding returned
AfterRun_Always(ok) == "stamp"

\* line 161: where main goes with the value run_encoding returned
AfterRun(ok) == IF ok THEN "stamp" ELSE "sleep"

\* lines 108-114, then main's `if` of line 161 (line 172 when it is False)
WaitAndReturn ==
    /\ pc = "wait"
    /\ ~sigint
    /\ returncode' = <<childExit>>
    /\ alive' = alive - 1
    /\ result' = <<RunEncodingReturn(childExit)>>
    /\ pc' = AfterRun(RunEncodingReturn(childExit))
    /\ UNCHANGED <<job, cfgs, fs, now, timestamp, command, childOut,
                   childExit, written, line_buffer, printed, exit, sigint,
                   counters>>

\* line 163: time.strftime, once per cycle
TakeTimestamp ==
    /\ pc = "stamp"
    /\ ~sigint
    /\ timestamp' = <<now>>
    /\ pc' = "move1"
    /\ UNCHANGED <<job, cfgs, fs, now, command, child, result, exit, sigint,
                   counters>>

\* shutil.copy in place of shutil.move
MovedFrom_Copy(w, f) == w

\* shutil.move(src, dst) that succeeds: the source is gone from the folder
MovedFrom(w, f) == w \ {f}

\* ... and the destination name is in the processed folder
MovedTo(p, name) == p \cup {name}

\* line 166
MoveFirst ==
    /\ pc = "move1"
    /\ ~sigint
    /\ watch' = MovedFrom(watch, Mov)
    /\ processed' = MovedTo(processed, ArchivedMov(timestamp[1]))
    /\ pc' = "move2"
    /\ UNCHANGED <<job, cfgs, now, timestamp, command, child, result, exit,
                   sigint, counters>>

\* line 166 raises: lines 169-170
MoveFirstFails ==
    /\ pc = "move1"
    /\ ~sigint
    /\ MoveCatches("OSError")
    /\ Error("move1")
    /\ UNCHANGED <<job, cfgs, fs, now, timestamp, command, child, result,
                   sigint, counters>>

\* lines 167-168 and 172
MoveSecond ==
    /\ pc = "move2"
    /\ ~sigint
    /\ watch' = MovedFrom(watch, Xml)
    /\ processed' = MovedTo(processed, ArchivedXml(timestamp[1]))
    /\ pc' = "sleep"
    /\ UNCHANGED <<job, cfgs, now, timestamp, command, child, result, exit,
                   sigint, counters>>

\* the handler of line 169 logging the failure and carrying on
MoveSecondFails_Logged ==
    /\ pc = "move2"
    /\ ~sigint
    /\ MoveCatches("OSError")
    /\ pc' = "sleep"
    /\ exitCause' = "move2"
    /\ UNCHANGED <<job, cfgs, fs, now, timestamp, command, child, result,
                   exitCode, sigint, counters>>

\* line 167 raises: lines 169-170
MoveSecondFails ==
    /\ pc = "move2"
    /\ ~sigint
    /\ MoveCatches("OSError")
    /\ Error("move2")
    /\ UNCHANGED <<job, cfgs, fs, now, timestamp, command, child, result,
                   sigint, counters>>

\* line 174: time.sleep(args.polling_interval), then back to the top
Sleep ==
    /\ pc = "sleep"
    /\ ~sigint
    /\ now + interval <= MaxTime
    /\ now' = now + interval
    /\ sleeps' = sleeps + 1
    /\ pc' = "check"
    /\ UNCHANGED <<job, cfgs, fs, timestamp, command, child, result, exit,
                   sigint, polls, builds, launches>>

(* ------------------------------------------------------ the interruption *)
\* Ctrl+C: the signal arrives while the loop is anywhere in the try block
SendSigint ==
    /\ pc \in LoopPcs
    /\ ~sigint
    /\ sigint' = TRUE
    /\ UNCHANGED <<pc, job, cfgs, fs, now, timestamp, command, child, result,
                   exit, counters>>

\* KeyboardInterrupt is raised at the statement the loop is at and travels
\* through the enclosing handlers: lines 115-120, 169-170, then 176-178
RaiseKeyboardInterrupt ==
    /\ pc \in LoopPcs
    /\ sigint
    /\ IF pc \in RunPcs /\ RunEncodingCatches("KeyboardInterrupt")
         THEN Error("launch")
       ELSE IF pc \in MovePcs /\ MoveCatches("KeyboardInterrupt")
         THEN Error(IF pc = "move1" THEN "move1" ELSE "move2")
       ELSE /\ MainCatches("KeyboardInterrupt")
            /\ Exit(InterruptExitCode, "interrupt")
    /\ UNCHANGED <<job, cfgs, fs, now, timestamp, command, child, result,
                   sigint, counters>>

(* -------------------------------------------------------- the environment *)
\* the clock moves on while the process is busy
Tick ==
    /\ pc \in LoopPcs \ {"sleep"}
    /\ now < MaxTime
    /\ now' = now + 1
    /\ UNCHANGED <<pc, job, cfgs, fs, timestamp, command, child, result,
                   exit, sigint, counters>>

\* the upstream mastering process drops an input file while the loop sleeps
Arrive ==
    /\ pc = "sleep"
    /\ \E f \in InputFiles \ watch : watch' = watch \cup {f}
    /\ UNCHANGED <<pc, job, cfgs, processed, now, timestamp, command, child,
                   result, exit, sigint, counters>>

Next ==
    \/ SetupNoWatchFolder
    \/ SetupConfigUnreadable
    \/ SetupOk
    \/ PollCheck
    \/ ConstructCommand
    \/ Launch
    \/ LaunchFails
    \/ ReadByte
    \/ ReadEOF
    \/ WaitAndReturn
    \/ TakeTimestamp
    \/ MoveFirst
    \/ MoveFirstFails
    \/ MoveSecond
    \/ MoveSecondFails
    \/ Sleep
    \/ SendSigint
    \/ RaiseKeyboardInterrupt
    \/ Tick
    \/ Arrive

Spec == Init /\ [][Next]_vars

(* ================================================================ claims *)
\* the mapping load_config returned holds the reserved key
LoadedHasKey == loaded # << >> /\ HasKey(loaded[1], ESP)
LoadedLacksKey == loaded # << >> /\ ~HasKey(loaded[1], ESP)

\* C1 (as claimed): with a configuration that was loaded with the reserved
\* key, every poll check that finds both inputs is followed by a built
\* command and a run of the encoder, the second and later detections too.
C1_EveryDetectionStartsCycle ==
    [][(pc = "construct" /\ ~sigint /\ LoadedHasKey /\ pc' # "construct")
          => (pc' = "launch" /\ command' # << >>)]_vars

\* C2 (as claimed): after a run that exited nonzero, the next poll check that
\* still finds both inputs builds the command and runs the encoder again.
C2_FailedRunIsRetried ==
    [][(pc = "construct" /\ ~sigint /\ result = <<FALSE>> /\ pc' # "construct")
          => pc' = "launch"]_vars

\* C3: the archive step is reached only after a run whose exit code was 0;
\* the folders change by a move only there; and the step that ends a run
\* with a nonzero exit code goes back to the sleep with both inputs in the
\* watch folder and the processed folder as it was.
C3_FailedRunMovesNothing ==
    /\ [](pc \in {"stamp", "move1", "move2"}
            => (returncode = <<0>> /\ result = <<TRUE>>))
    /\ [][(processed' # processed \/ ~(watch \subseteq watch'))
            => (pc \in MovePcs /\ returncode = <<0>> /\ result = <<TRUE>>)]_vars
    /\ [][(pc = "wait" /\ pc' # "wait" /\ ~sigint /\ childExit # 0)
            => (pc' = "sleep" /\ InputFiles \subseteq watch'
                /\ watch' = watch /\ processed' = processed)]_vars

C3_Witness ==
    /\ pc = "sleep"
    /\ returncode # << >> /\ returncode[1] # 0
    /\ InputFiles \subseteq watch
    /\ processed = {}

\* C4: the step that completes the second move of a cycle leaves no input in
\* the watch folder, leaves DolbyMaster_<ts>.mov and DolbyMetadata_<ts>.xml
\* in the processed folder with <ts> the one timestamp taken in that cycle,
\* and puts the loop back at the sleep.
C4_SuccessArchivesPair ==
    [][(pc = "move2" /\ ~sigint /\ pc' # "move2" /\ pc' # "exited")
          => /\ pc' = "sleep"
             /\ returncode = <<0>>
             /\ watch' \cap InputFiles = {}
             /\ timestamp' = timestamp
             /\ ArchivedMov(timestamp[1]) \in processed'
             /\ ArchivedXml(timestamp[1]) \in processed'
             /\ Cardinality(processed') = 2]_vars

C4_Witness ==
    /\ pc = "sleep"
    /\ result = <<TRUE>>
    /\ watch = {}
    /\ timestamp # << >> /\ now > timestamp[1]
    /\ processed = {ArchivedMov(timestamp[1]), ArchivedXml(timestamp[1])}

\* C5: a poll check that finds at most one of the two inputs builds no
\* command, starts no encoder, moves no file and raises no error; the loop
\* goes to the sleep (or ends on a pending KeyboardInterrupt).
C5_IncompletePairDoesNothing ==
    [][(pc = "check" /\ Cardinality(watch \cap InputFiles) <= 1)
          => /\ pc' \in {"check", "sleep", "exited"}
             /\ pc' = "exited" => (exitCause' = "interrupt" /\ exitCode' = <<0>>)
             /\ UNCHANGED <<command, config, builds, launches, watch, processed>>]_vars

C5_Witness ==
    /\ pc = "sleep"
    /\ polls >= 2
    /\ Cardinality(watch) = 1
    /\ builds = 0

\* C6 (as claimed): after a failed move the process is gone and both inputs
\* are still in the watch folder, neither of them archived.
C6_MoveFailureLeavesPair ==
    exitCause \in {"move1", "move2"}
       => (pc = "exited" /\ InputFiles \subseteq watch /\ processed = {})

\* C6 (amended): a failed move ends the process with exit code 1 and nothing
\* runs afterwards; after a failed first move both inputs are in the watch
\* folder and nothing is archived; after a failed second move
\* DolbyMetadata.xml is in the watch folder and DolbyMaster.mov is not: it is
\* in the processed folder under its archive name.
C6_MoveFailureAborts ==
    /\ [](exitCause = "move1"
            => (pc = "exited" /\ exitCode = <<1>>
                /\ InputFiles \subseteq watch /\ processed = {}))
    /\ [](exitCause = "move2"
            => (pc = "exited" /\ exitCode = <<1>>
                /\ Xml \in watch /\ Mov \notin watch
                /\ processed = {ArchivedMov(timestamp[1])}))
    /\ [][pc # "exited"]_vars

C6_Witness ==
    /\ pc = "exited"
    /\ exitCause = "move2"
    /\ Mov \notin watch
    /\ ArchivedMov(timestamp[1]) \in processed

\* C7 (as claimed): no step taken while the encoder is running or the archive
\* moves are in progress ends the watcher on a KeyboardInterrupt.
C7_InterruptOnlyAtSleep ==
    [][(pc \in RunPcs \cup {"stamp"} \cup MovePcs)
          => ~(pc' = "exited" /\ exitCause' = "interrupt")]_vars

\* C7 (amended): once SIGINT has arrived, the next statement of the loop,
\* whichever it is (the sleep, the encoder run, the archive moves), does not
\* execute: the watcher ends there with exit code 0 and the folders as they
\* are at that moment.
C7_InterruptActsAnywhere ==
    [][(sigint /\ pc \in LoopPcs /\ pc' # pc)
          => /\ pc' = "exited"
             /\ exitCode' = <<0>>
             /\ exitCause' = "interrupt"
             /\ UNCHANGED <<watch, processed, returncode, result>>]_vars

C7_Witness ==
    /\ pc = "exited"
    /\ exitCause = "interrupt"
    /\ launches = 1
    /\ childOut # << >>
    /\ returncode = << >>

\* C8 (as claimed): a configuration loaded without the reserved key ends the
\* process before any poll check or sleep.
C8_MissingKeyAbortsAtStartup ==
    LoadedLacksKey => (polls = 0 /\ sleeps = 0)

\* C8 (amended): with a configuration loaded without the reserved key the
\* loop is entered and polls and sleeps while the pair is incomplete; the
\* first construct_command call (made at the first check that finds both
\* inputs) ends the process with exit code 1; no encoder is ever started and
\* no file is moved.
C8_MissingKeyDetectedAtFirstDetection ==
    LoadedLacksKey =>
       /\ launches = 0 /\ processed = {} /\ command = << >>
       /\ builds <= 1
       /\ builds = 0 => (pc \in {"check", "construct", "sleep"}
                         \/ (pc = "exited" /\ exitCause = "interrupt"))
       /\ builds = 1 => (pc = "exited" /\ exitCode = <<1>>
                         /\ exitCause = "config_key" /\ InputFiles \subseteq watch)

C8_Witness ==
    /\ LoadedLacksKey
    /\ pc = "exited"
    /\ exitCause = "config_key"
    /\ polls >= 2
    /\ sleeps >= 1

\* C9 (as claimed): exit code 1 only when the loop was never entered, and
\* exit code 0 on cancellation.
C9_ExitOneOnlyBeforeLoop ==
    pc = "exited" =>
       /\ exitCode = <<1>> => (loaded = << >> /\ polls = 0)
       /\ exitCause = "interrupt" => exitCode = <<0>>

\* C9 (amended): every termination through error() has exit code 1, those
\* before the loop (watch folder, configuration file) and those inside it
\* (missing reserved key at construct_command, encoder launch, archive
\* move); termination by cancellation, and only that, has exit code 0.
C9_ExitCodes ==
    pc = "exited" =>
       /\ exitCode = <<0>> <=> exitCause = "interrupt"
       /\ exitCode = <<1>> <=> exitCause \in {"watch_folder", "config_file",
                                   "config_key", "launch", "move1", "move2"}
       /\ exitCause \in {"watch_folder", "config_file"} <=> loaded = << >>
       /\ exitCause = "interrupt" => loaded # << >>

C9_Witness ==
    /\ pc = "exited"
    /\ exitCode = <<1>>
    /\ sleeps >= 1
    /\ launches = 1

\* C10: once the child has ended and run_encoding has returned, the value
\* returned is True exactly when the child's exit code is 0, whatever the
\* colours of the lines printed.
C10_SuccessIffExitZero ==
    (result # << >> /\ returncode # << >>)
       => (result[1] = TRUE <=> returncode[1] = 0)

C10_Witness ==
    /\ result = <<TRUE>>
    /\ returncode = <<0>>
    /\ \E i \in 1..Len(printed) : printed[i][1] = "RED"

\* C11: when Popen raises, the process ends there with exit code 1:
\* run_encoding returns no value to main (neither the False of a recoverable
\* failure nor True), no child exists, no file is moved, and nothing runs
\* afterwards (no poll, no second build).
C11_LaunchFailureAborts ==
    /\ [](exitCause = "launch"
            => (pc = "exited" /\ exitCode = <<1>> /\ result = << >>
                /\ launches = 0 /\ alive = 0 /\ builds = 1
                /\ InputFiles \subseteq watch /\ processed = {}))
    /\ [][exitCause = "launch" => UNCHANGED <<pc, polls, sleeps, builds, watch>>]_vars

C11_Witness ==
    /\ pc = "exited"
    /\ exitCause = "launch"
    /\ command # << >>
    /\ sleeps >= 1

(* ------------------------------------------- claims about the command *)
\* the entries of a mapping other than the reserved key, in its order
FurtherEntries(cfg) == SelectSeq(cfg, LAMBDA e : e[1] # ESP)
\* ... and those of them whose value is not null
NonNullEntries(cfg) == SelectSeq(FurtherEntries(cfg), LAMBDA e : e[2].type # "null")
\* the tokens of a command between its first three and its last eight
ConfigPart(cmd) == SubSeq(cmd, 4, Len(cmd) - 8)
\* a command has been built from the mapping as it was loaded
Built == command # << >> /\ loaded # << >>

\* C12: the configuration part of the command holds, for the i-th further
\* key with a non-null value, the flag --key at position 2i-1 and nothing
\* else: one flag per such key, in the mapping's order, and no flag for a
\* null-valued key nor for encoder_script_path.
C12_OnePairPerNonNullKey ==
    Built =>
       LET cfg == loaded[1]
           nn  == NonNullEntries(cfg)
           mid == ConfigPart(command)
       IN  /\ Len(mid) = 2 * Len(nn)
           /\ \A i \in 1..Len(nn) :
                 /\ mid[2 * i - 1] = <<"--", nn[i][1]>>
                 /\ Cardinality({j \in 1..Len(mid) : mid[j] = <<"--", nn[i][1]>>}) = 1
           /\ \A k \in 1..Len(cfg) :
                 (cfg[k][1] = ESP \/ cfg[k][2].type = "null")
                    => \A j \in 1..Len(command) : command[j] # <<"--", cfg[k][1]>>

C12_Witness ==
    /\ Built
    /\ loaded = <<CfgNull>>
    /\ Len(ConfigPart(command)) = 4

\* C13: the value token of a further non-null key is the value in double
\* quotes exactly when the value is a string that contains '/' or '\' and
\* either names an existing path or contains "temp"; otherwise it is the
\* plain string form of the value.
C13_QuotedIffPathLikeAndKnown ==
    Built =>
       LET nn  == NonNullEntries(loaded[1])
           mid == ConfigPart(command)
       IN  \A i \in 1..Len(nn) :
              LET v   == nn[i][2]
                  sep == v.type = "str"
                         /\ (\E j \in 1..Len(v.text) : v.text[j] \in {"/", "\\"})
                  known == v.text \in ExistingPaths
                           \/ \E j \in 1..Len(v.text) - 3 :
                                 SubSeq(v.text, j, j + 3) = <<"t", "e", "m", "p">>
                  plain == IF v.type = "bool"
                           THEN (IF v.text = <<"true">> THEN <<"True">> ELSE <<"False">>)
                           ELSE v.text
              IN  /\ (sep /\ known) => mid[2 * i] = <<"\"">> \o v.text \o <<"\"">>
                  /\ ~(sep /\ known) => mid[2 * i] = plain

C13_Witness ==
    /\ Built
    /\ loaded = <<CfgPaths>>
    /\ ConfigPart(command)[2] = <<"\"">> \o P_temp \o <<"\"">>
    /\ ConfigPart(command)[6] = P_ab

\* C14 (as claimed): two tokens (interpreter, script path) come before the
\* configuration pairs, and the command has 2 + 2n + 8 tokens.
C14_TwoTokenPrefix ==
    Built =>
       /\ Len(command) = 2 + 2 * Len(NonNullEntries(loaded[1])) + 8
       /\ command[2] = <<"\"">> \o Lookup(loaded[1], ESP).text \o <<"\"">>

\* C14 (amended): three tokens (interpreter, -u, script path) come before
\* the configuration pairs; the last eight tokens are --input,
\* --input-metadata, --output-bl, --output-el with their values, the output
\* names built on the last segment of the watch folder; the command has
\* 3 + 2n + 8 tokens.
C14_Layout ==
    Built =>
       LET n    == Len(NonNullEntries(loaded[1]))
           L    == Len(command)
           base == watch_folder[Len(watch_folder)]
           q(t) == <<"\"">> \o t \o <<"\"">>
       IN  /\ L = 3 + 2 * n + 8
           /\ command[1] = q(<<"python">>)
           /\ command[2] = <<"-u">>
           /\ command[3] = q(Lookup(loaded[1], ESP).text)
           /\ command[L - 7] = <<"--input">>
           /\ command[L - 6] = q(PathText(watch_folder) \o <<"/", Mov>>)
           /\ command[L - 5] = <<"--input-metadata">>
           /\ command[L - 4] = q(PathText(watch_folder) \o <<"/", Xml>>)
           /\ command[L - 3] = <<"--output-bl">>
           /\ command[L - 2] = q(PathText(OutputFolder) \o <<"/", base, "_bl.h265">>)
           /\ command[L - 1] = <<"--output-el">>
           /\ command[L] = q(PathText(OutputFolder) \o <<"/", base, "_el.h265">>)

C14_Witness ==
    /\ Built
    /\ watch_folder = <<"mnt", "jobs", "show">>
    /\ Len(command) = 15

(* ------------------------------------------ claims about the output lines *)
\* word occurs in text, letter case ignored
OccursIn(word, text) ==
    \E j \in 1..Len(text) - Len(word) + 1 :
       \A k \in 1..Len(word) : LowerChar(text[j + k - 1]) = word[k]

\* C15: every printed line has one colour: red when it contains "error" in
\* any letter case (also when it contains "warning" too), yellow when it
\* contains "warning" in any letter case and no "error", plain otherwise.
C15_ErrorBeforeWarning ==
    \A i \in 1..Len(printed) :
       LET colour == printed[i][1]
           text   == printed[i][2]
           err    == OccursIn(<<"e", "r", "r", "o", "r">>, text)
           warn   == OccursIn(<<"w", "a", "r", "n", "i", "n", "g">>, text)
       IN  /\ colour \in {"RED", "YELLOW", "PLAIN"}
           /\ colour = "RED" <=> err
           /\ colour = "YELLOW" <=> (warn /\ ~err)
           /\ colour = "PLAIN" <=> (~warn /\ ~err)

C15_Witness ==
    \E i \in 1..Len(printed) :
       /\ printed[i][1] = "RED"
       /\ OccursIn(<<"w", "a", "r", "n", "i", "n", "g">>, printed[i][2])
       /\ OccursIn(<<"e", "r", "r", "o", "r">>, printed[i][2])

\* C16 (as claimed): a call of construct_command leaves the configuration
\* mapping it was given as it was.
C16_ConfigUntouched ==
    [][(pc = "construct" /\ ~sigint /\ pc' # "construct") => config' = config]_vars

(* ------------------------------------------------ claims about the loop *)
\* a step that moves a file out of the watch folder or into the processed one
MovesAFile == processed' # processed \/ ~(watch \subseteq watch')

\* C17: there is never more than one child; a child exists only while
\* run_encoding reads its output or waits for it; a child is started, a poll
\* check is made and a file is moved only when no child exists.
C17_OneJobAtATime ==
    /\ [](alive <= 1)
    /\ []((alive = 1 /\ pc # "exited") => pc \in {"reading", "wait"})
    /\ [][alive' > alive => (alive = 0 /\ pc = "launch")]_vars
    /\ [][polls' # polls => (alive = 0 /\ pc = "check")]_vars
    /\ [][MovesAFile => (alive = 0 /\ pc \in MovePcs)]_vars

C17_Witness ==
    /\ pc = "construct"
    /\ polls = 2
    /\ launches = 1
    /\ alive = 0
    /\ processed # {}

\* C18 (as claimed): every check of the watch folder has a sleep before it,
\* the first one included.
C18_SleepBeforeEveryCheck == polls <= sleeps

\* C18 (amended): the first check is made with no sleep before it, and one
\* sleep of the polling interval lies between any two consecutive checks:
\* checks and sleeps alternate, starting with a check.
C18_CheckThenSleep ==
    /\ []((loaded # << >> /\ pc = "check") => polls = sleeps)
    /\ [](pc \in LoopPcs \ {"check"} => polls = sleeps + 1)
    /\ [][polls' # polls => (polls' = polls + 1 /\ sleeps' = sleeps)]_vars
    /\ [][sleeps' # sleeps => (sleeps' = sleeps + 1 /\ polls' = polls
                               /\ now' = now + interval)]_vars

C18_Witness ==
    /\ pc = "sleep"
    /\ polls = 3
    /\ sleeps = 2

\* one input of a cycle is archived and the other is not
Split ==
    \E n \in processed :
       IF n[1] = "DolbyMaster" THEN ArchivedXml(n[3]) \notin processed
                               ELSE ArchivedMov(n[3]) \notin processed

\* C19: the pair is split only between the two moves or in a process that
\* has ended; no poll check is made with a split pair, and nothing runs once
\* the process has ended.
C19_PairNeverSplitAtPoll ==
    /\ [](Split => pc \in {"move2", "exited"})
    /\ [](Split => (Mov \notin watch /\ Xml \in watch))
    /\ [][polls' # polls => (~Split /\ ~Split')]_vars
    /\ [][pc = "exited" => UNCHANGED <<pc, polls, watch, processed>>]_vars

C19_Witness ==
    /\ Split
    /\ pc = "exited"
    /\ exitCause = "interrupt"

\* the newline-terminated lines of a byte string, in order
RECURSIVE CompleteLines(_)
CompleteLines(bytes) ==
    LET i == IndexOf(NL, bytes)
    IN  IF i = 0 THEN << >>
        ELSE <<SubSeq(bytes, 1, i - 1)>> \o CompleteLines(SubSeq(bytes, i + 1, Len(bytes)))

\* what follows the last newline of a byte string
RECURSIVE Remainder(_)
Remainder(bytes) ==
    LET i == IndexOf(NL, bytes)
    IN  IF i = 0 THEN bytes ELSE Remainder(SubSeq(bytes, i + 1, Len(bytes)))

\* the bytes run_encoding has read from the pipe so far
BytesRead == SubSeq(written, 1, Len(written) - Len(childOut))

\* C20: between reads the printed lines are the newline-terminated lines of
\* the bytes read so far, each once and in the child's order, and the line
\* buffer is what follows the last newline (so it holds no newline); the exit
\* code is looked at only when everything was read; what the child wrote
\* after its last newline is never printed.
C20_LinesPrintedOnceInOrder ==
    launches >= 1 =>
       LET lines == CompleteLines(BytesRead)
       IN  /\ Len(printed) = Len(lines)
           /\ \A i \in 1..Len(lines) : printed[i][2] = RStrip(Decode(lines[i]))
           /\ line_buffer = Remainder(BytesRead)
           /\ \A j \in 1..Len(line_buffer) : line_buffer[j] # NL
           /\ returncode # << >> => (childOut = << >> /\ BytesRead = written)

C20_Witness ==
    /\ returncode # << >>
    /\ written = Out_warn
    /\ Len(printed) = 1
    /\ printed[1][2] = <<"W", "a", "r", "n", "i", "n", "g">>
    /\ line_buffer = <<"e", "n", "d">>

====
